---- MODULE Spec2Model ----
(***************************************************************************)
(* A model of the cparsec parser-combinator engine (cparsec.hpp) and of    *)
(* the JSON grammar written with it (jsonp.hpp).                           *)
(*                                                                         *)
(* A Parser<T> of the source is a closure.  Here a parser is the record    *)
(* of what the closure captured (its "op" names the function that built    *)
(* it), and Run(p, s) is the call p(s): it executes the body of that       *)
(* closure on the ParseState s.  Characters are one-character strings and  *)
(* a std::string is the sequence of its characters.                        *)
(*                                                                         *)
(* Every call p(s) leaves a node in the "calls" field of what it returns:  *)
(* the parser called, the position it was called at, how it returned and   *)
(* the nodes of the calls its body made, in order.  The source has no such *)
(* field; it is the history of the evaluation, kept so that properties     *)
(* about which parser is invoked where can be stated.                      *)
(***************************************************************************)
EXTENDS Integers, Sequences, FiniteSets, TLC

VARIABLES
    pc,         \* "ready" before the driver's call, "done" after it returned or aborted
    parser,     \* the parser the driver calls
    state,      \* the ParseState the driver calls it on
    res,        \* what the call produced
    unionCopy   \* what assigning into the unconstructed union member does in this run

vars == <<pc, parser, state, res, unionCopy>>

----------------------------------------------------------------------------
(* Bounds of the model *)

MaxLen == 3
MaxAlts == 3
MaxElems == 2
MaxPairs == 2
MaxWs == 2
MaxTokens == 2

----------------------------------------------------------------------------
(* ParseState and ParseResult *)

ParseState(pos, s) == [pos |-> pos, s |-> s]

NewParseState(s) == ParseState(0, s)

success(s, r, calls) ==
    [abort |-> FALSE, success |-> TRUE, result |-> r, state |-> s, calls |-> calls]

failure(s, e, calls) ==
    [abort |-> FALSE, success |-> FALSE, error |-> e, state |-> s, calls |-> calls]

\* The process died inside the call: nothing is returned.
aborted(calls) == [abort |-> TRUE, success |-> FALSE, calls |-> calls]

\* The outcomes of "error = r.error" on a union member that was never
\* constructed: the stale bytes happen to let the assignment go through, or
\* the process dies on them (what g++ 12 builds do).
UnionCopyOutcomes == {"assigned", "segv"}

\* ParseResult(const ParseResult &r).  state and success are copied by the
\* member initialisers.  A success assigns result, which the element types the
\* grammar copies (char, int, double, JsonValue) survive; a failure assigns
\* into the unconstructed std::list.
ParseResultCopy(r, calls) ==
    IF r.success \/ unionCopy = "assigned" THEN [r EXCEPT !.calls = calls]
    ELSE aborted(calls)

\* operator== of ParseResult: the tag, then the value or the expectations;
\* the state is not compared.
ParseResultEq(a, b) ==
    IF a.success # b.success THEN FALSE
    ELSE IF a.success THEN a.result = b.result
    ELSE a.error = b.error

----------------------------------------------------------------------------
(* The functions handed to predP, mapP and andP *)

DigitChars == <<"0", "1", "2", "3", "4", "5", "6", "7", "8", "9">>

IsDigit(c) == \E i \in 1..Len(DigitChars) : DigitChars[i] = c

\* c - '0'
DigitValue(c) == (CHOOSE i \in 1..Len(DigitChars) : DigitChars[i] = c) - 1

\* The std::function<bool(char)> a predP closure holds.
Pred(f, c) ==
    CASE f.fn = "eq" -> f.c = c
      [] f.fn = "oneOf" -> \E i \in 1..Len(f.s) : c = f.s[i]
      [] f.fn = "digit" -> IsDigit(c)
      [] f.fn = "notQuote" -> c # "\""

\* natP's fold: n = n * 10 + i, left to right.  The inputs of the model stay
\* far below the ten digits at which the source's int would overflow.
RECURSIVE NatFold(_, _)
NatFold(n, ns) == IF ns = <<>> THEN n ELSE NatFold(n * 10 + Head(ns), Tail(ns))

RECURSIVE Pow10(_)
Pow10(k) == IF k = 0 THEN 1 ELSE 10 * Pow10(k - 1)

\* A double is held exactly, as m / 10^e with no trailing zero in m: the
\* rounding of binary doubles is not modelled.
RECURSIVE Double(_, _)
Double(m, e) ==
    IF e > 0 /\ m % 10 = 0 THEN Double(m \div 10, e - 1) ELSE [m |-> m, e |-> e]

\* doubleP's fold of the fraction digits: ans += i * base; base /= 10.
FracFold(ns) == Double(NatFold(0, ns), Len(ns))

\* x + y of doubleP: the int x widened and added to the fraction y >= 0.
AddIntDouble(x, y) == Double(x * Pow10(y.e) + y.m, y.e)

\* The control characters escapeP produces, by name.
EscapeChar(c) ==
    CASE c = "0" -> "<NUL>"
      [] c = "b" -> "<BS>"
      [] c = "t" -> "\t"
      [] c = "n" -> "\n"
      [] c = "v" -> "<VT>"
      [] c = "f" -> "\f"
      [] c = "r" -> "\r"
      [] OTHER -> c

----------------------------------------------------------------------------
(* JsonValue *)

JsonNull == [type |-> "JSON_NULL"]
JsonBool(v) == [type |-> "JSON_BOOL", boolValue |-> v]
JsonNum(v) == [type |-> "JSON_NUM", numValue |-> v]
JsonString(v) == [type |-> "JSON_STRING", strValue |-> v]
JsonArray(v) == [type |-> "JSON_ARRAY", arrayValue |-> v]
\* A std::map is the function from its keys to their values.
JsonObject(v) == [type |-> "JSON_OBJECT", objectValue |-> v]

EmptyMap == [k \in {} |-> JsonNull]

\* m[k] = v of std::map: the key is added or its value overwritten.
MapPut(m, k, v) == [x \in (DOMAIN m) \cup {k} |-> IF x = k THEN v ELSE m[x]]

\* The lambda of objectP keeping the first value a key was given.
objectP_fold_keepingFirst(x, xs) ==
    LET all == <<x>> \o xs
        m[i \in 0..Len(all)] ==
            IF i = 0 THEN EmptyMap
            ELSE IF all[i].first \in DOMAIN m[i - 1] THEN m[i - 1]
            ELSE MapPut(m[i - 1], all[i].first, all[i].second)
    IN JsonObject(m[Len(all)])

\* objectP's loop: for (kv i : xs) m[i.first] = i.second.
RECURSIVE MapFold(_, _)
MapFold(m, xs) ==
    IF xs = <<>> THEN m
    ELSE MapFold(MapPut(m, Head(xs).first, Head(xs).second), Tail(xs))

\* The lambda of objectP: the first pair is pushed to the front, then folded.
objectP_fold(x, xs) == JsonObject(MapFold(EmptyMap, <<x>> \o xs))

\* The lambda of arrayP.
arrayP_cons(x, xs) == JsonArray(<<x>> \o xs)

\* The std::function<B(A)> a mapP closure holds, by name.
Apply(f, x) ==
    CASE f = "digitValue" -> DigitValue(x)
      [] f = "natFold" -> NatFold(0, x)
      [] f = "negate" -> 0 - x
      [] f = "fracFold" -> FracFold(x)
      [] f = "widen" -> Double(x, 0)
      [] f = "jsonNull" -> JsonNull
      [] f = "jsonTrue" -> JsonBool(TRUE)
      [] f = "jsonFalse" -> JsonBool(FALSE)
      [] f = "jsonNum" -> JsonNum(x)
      [] f = "escape" -> EscapeChar(x)
      [] f = "implode" -> x
      [] f = "jsonString" -> JsonString(x)

\* The std::function<C(A, B)> an andP closure holds, by name.
Apply2(f, a, b) ==
    CASE f = "first" -> a
      [] f = "second" -> b
      [] f = "push_front" -> <<a>> \o b
      [] f = "add" -> AddIntDouble(a, b)
      [] f = "make_pair" -> [first |-> a, second |-> b]
      [] f = "arrayCons" -> arrayP_cons(a, b)
      [] f = "objectFold" -> objectP_fold(a, b)

----------------------------------------------------------------------------
(* The parsers: what each closure captured *)

idP == [op |-> "idP"]
eofP == [op |-> "eofP"]
predP(f) == [op |-> "predP", pred |-> f]
charP(c) == predP([fn |-> "eq", c |-> c])
oneOfP(s) == predP([fn |-> "oneOf", s |-> s])
mapP(p, f) == [op |-> "mapP", p |-> p, f |-> f]
pureP(x) == [op |-> "pureP", x |-> x]
andP(pa, pb, f) == [op |-> "andP", pa |-> pa, pb |-> pb, f |-> f]
leftP(pa, pb) == andP(pa, pb, "first")
rightP(pa, pb) == andP(pa, pb, "second")
manyP(p) == [op |-> "manyP", p |-> p]
someP(p) == andP(p, manyP(p), "push_front")
stringP(str) == [op |-> "stringP", str |-> str]
lazyP(f) == [op |-> "lazyP", thunk |-> f]

\* orP(p) is p itself; orP(p, ps...) is a closure over p and the rest.
orP(ps) == IF Len(ps) = 1 THEN ps[1] ELSE [op |-> "orP", p |-> Head(ps), ps |-> Tail(ps)]

\* betweenP skipping whitespace before the closing delimiter.
betweenP_skippingSpace(lp, rp, p) ==
    rightP(lp, leftP(p, rightP(manyP(oneOfP(<<" ", "\n", "\t">>)), rp)))

betweenP(lp, rp, p) == rightP(lp, leftP(p, rp))

space == oneOfP(<<" ", "\n", "\t">>)
spaces == manyP(space)
trimP(p) == rightP(spaces, leftP(p, spaces))

digitP == mapP(predP([fn |-> "digit"]), "digitValue")
natP == mapP(someP(digitP), "natFold")
intP == orP(<<mapP(rightP(charP("-"), natP), "negate"), natP>>)
doubleP ==
    orP(<<andP(intP, rightP(charP("."), mapP(someP(digitP), "fracFold")), "add"),
          mapP(intP, "widen")>>)

----------------------------------------------------------------------------
(* The JSON grammar *)

nullP == trimP(mapP(stringP(<<"n", "u", "l", "l">>), "jsonNull"))

boolP ==
    trimP(orP(<<mapP(stringP(<<"t", "r", "u", "e">>), "jsonTrue"),
                mapP(stringP(<<"f", "a", "l", "s", "e">>), "jsonFalse")>>))

numP == trimP(mapP(doubleP, "jsonNum"))

escapeP == mapP(idP, "escape")

escapeStrP ==
    trimP(betweenP(charP("\""), charP("\""),
        mapP(manyP(orP(<<rightP(charP("\\"), escapeP), predP([fn |-> "notQuote"])>>)),
             "implode")))

strP == mapP(escapeStrP, "jsonString")

\* arrayP taking a ',' before the ']'.
arrayP_trailingComma ==
    trimP(betweenP(charP("["), charP("]"),
        orP(<<leftP(andP(lazyP("jsonP"), manyP(rightP(charP(","), lazyP("jsonP"))), "arrayCons"),
                    orP(<<charP(","), pureP(",")>>)),
              pureP(JsonArray(<<>>))>>)))

arrayP ==
    trimP(betweenP(charP("["), charP("]"),
        orP(<<andP(lazyP("jsonP"), manyP(rightP(charP(","), lazyP("jsonP"))), "arrayCons"),
              pureP(JsonArray(<<>>))>>)))

itemP == andP(escapeStrP, rightP(charP(":"), lazyP("jsonP")), "make_pair")

objectP ==
    trimP(betweenP(charP("{"), charP("}"),
        orP(<<andP(itemP, manyP(rightP(charP(","), itemP)), "objectFold"),
              pureP(JsonObject(EmptyMap))>>)))

jsonP == orP(<<nullP, boolP, numP, strP, lazyP("arrayP"), lazyP("objectP")>>)

\* f() of lazyP: the function the closure holds, called when the parser runs.
Thunk(f) ==
    CASE f = "jsonP" -> jsonP
      [] f = "arrayP" -> arrayP
      [] f = "objectP" -> objectP

----------------------------------------------------------------------------
(* The closure bodies: p_run(captures, s) is the body of the closure p built. *)
(* The "calls" of what a body returns are the nodes of the calls it made.     *)

RECURSIVE Run(_, _)

\* The node of the call p(s) that returned r: "to" is the position of the
\* state it returned.
Call(p, s, r) ==
    [p |-> p, at |-> s.pos, abort |-> r.abort, success |-> r.success,
     to |-> IF r.abort THEN s.pos ELSE r.state.pos, sub |-> r.calls]

\* idP with its end test off by one.
idP_run_pastEnd(s) ==
    IF s.pos > Len(s.s) THEN failure(s, <<"end of file">>, <<>>)
    ELSE success(ParseState(s.pos + 1, s.s),
                 IF s.pos < Len(s.s) THEN s.s[s.pos + 1] ELSE "<NUL>", <<>>)

idP_run(s) ==
    IF s.pos = Len(s.s) THEN failure(s, <<"end of file">>, <<>>)
    ELSE success(ParseState(s.pos + 1, s.s), s.s[s.pos + 1], <<>>)

eofP_run(s) ==
    IF s.pos = Len(s.s) THEN success(s, TRUE, <<>>)
    ELSE failure(s, <<"expect end of file">>, <<>>)

predP_run(f, s) ==
    LET r == Run(idP, s) IN
    CASE r.abort -> aborted(<<Call(idP, s, r)>>)
      [] ~r.abort /\ ~r.success -> failure(r.state, r.error, <<Call(idP, s, r)>>)
      [] r.success /\ ~Pred(f, r.result) ->
            failure(r.state, <<"unexpect " \o r.result>>, <<Call(idP, s, r)>>)
      [] r.success /\ Pred(f, r.result) -> ParseResultCopy(r, <<Call(idP, s, r)>>)

mapP_run(p, f, s) ==
    LET r == Run(p, s) IN
    CASE r.abort -> aborted(<<Call(p, s, r)>>)
      [] ~r.abort /\ ~r.success -> failure(r.state, r.error, <<Call(p, s, r)>>)
      [] r.success -> success(r.state, Apply(f, r.result), <<Call(p, s, r)>>)

\* orP trying the rest on the state the failed alternative returned.
orP_run_fromFailure(p, ps, s) ==
    LET r == Run(p, s) IN
    CASE r.abort -> aborted(<<Call(p, s, r)>>)
      [] ~r.abort /\ ~r.success ->
            LET r2 == Run(orP(ps), r.state) IN
            [r2 EXCEPT !.calls = <<Call(p, s, r), Call(orP(ps), r.state, r2)>>]
      [] r.success -> ParseResultCopy(r, <<Call(p, s, r)>>)

\* orP putting the failed alternative's expectations before the rest's.
orP_run_merging(p, ps, s) ==
    LET r == Run(p, s) IN
    CASE r.abort -> aborted(<<Call(p, s, r)>>)
      [] ~r.abort /\ ~r.success ->
            LET r2 == Run(orP(ps), s)
                calls == <<Call(p, s, r), Call(orP(ps), s, r2)>>
            IN IF r2.abort \/ r2.success THEN [r2 EXCEPT !.calls = calls]
               ELSE failure(r2.state, r.error \o r2.error, calls)
      [] r.success -> ParseResultCopy(r, <<Call(p, s, r)>>)

orP_run(p, ps, s) ==
    LET r == Run(p, s) IN
    CASE r.abort -> aborted(<<Call(p, s, r)>>)
      [] ~r.abort /\ ~r.success ->
            LET r2 == Run(orP(ps), s) IN
            [r2 EXCEPT !.calls = <<Call(p, s, r), Call(orP(ps), s, r2)>>]
      [] r.success -> ParseResultCopy(r, <<Call(p, s, r)>>)

pureP_run(x, s) == success(s, x, <<>>)

\* andP running pb on the state andP was called on.
andP_run_restarting(pa, pb, f, s) ==
    LET ra == Run(pa, s) IN
    CASE ra.abort -> aborted(<<Call(pa, s, ra)>>)
      [] ~ra.abort /\ ~ra.success -> failure(ra.state, ra.error, <<Call(pa, s, ra)>>)
      [] ra.success ->
            LET rb == Run(pb, s)
                calls == <<Call(pa, s, ra), Call(pb, s, rb)>>
            IN CASE rb.abort -> aborted(calls)
                 [] ~rb.abort /\ ~rb.success -> failure(rb.state, rb.error, calls)
                 [] rb.success -> success(rb.state, Apply2(f, ra.result, rb.result), calls)

andP_run(pa, pb, f, s) ==
    LET ra == Run(pa, s) IN
    CASE ra.abort -> aborted(<<Call(pa, s, ra)>>)
      [] ~ra.abort /\ ~ra.success -> failure(ra.state, ra.error, <<Call(pa, s, ra)>>)
      [] ra.success ->
            LET rb == Run(pb, ra.state)
                calls == <<Call(pa, s, ra), Call(pb, ra.state, rb)>>
            IN CASE rb.abort -> aborted(calls)
                 [] ~rb.abort /\ ~rb.success -> failure(rb.state, rb.error, calls)
                 [] rb.success -> success(rb.state, Apply2(f, ra.result, rb.result), calls)

\* manyP ending on the state the failed application carries.
manyP_run_keepingFailure(p, s) ==
    LET r == Run(p, s) IN
    CASE r.abort -> aborted(<<Call(p, s, r)>>)
      [] ~r.abort /\ ~r.success -> success(r.state, <<>>, <<Call(p, s, r)>>)
      [] r.success ->
            LET rs == Run(manyP(p), r.state)
                calls == <<Call(p, s, r), Call(manyP(p), r.state, rs)>>
            IN CASE rs.abort -> aborted(calls)
                 [] ~rs.abort -> success(rs.state, <<r.result>> \o rs.result, calls)

manyP_run(p, s) ==
    LET r == Run(p, s) IN
    CASE r.abort -> aborted(<<Call(p, s, r)>>)
      [] ~r.abort /\ ~r.success -> success(s, <<>>, <<Call(p, s, r)>>)
      [] r.success ->
            LET rs == Run(manyP(p), r.state)
                calls == <<Call(p, s, r), Call(manyP(p), r.state, rs)>>
            IN CASE rs.abort -> aborted(calls)
                 [] ~rs.abort -> success(rs.state, <<r.result>> \o rs.result, calls)

stringP_run(str, s) ==
    IF str = <<>> THEN success(s, <<>>, <<>>)
    ELSE LET r == Run(charP(Head(str)), s) IN
         CASE r.abort -> aborted(<<Call(charP(Head(str)), s, r)>>)
           [] ~r.abort /\ ~r.success ->
                 failure(r.state, r.error, <<Call(charP(Head(str)), s, r)>>)
           [] r.success ->
                 LET rs == Run(stringP(Tail(str)), r.state)
                     calls == <<Call(charP(Head(str)), s, r),
                                Call(stringP(Tail(str)), r.state, rs)>>
                 IN CASE rs.abort -> aborted(calls)
                      [] ~rs.abort /\ ~rs.success -> ParseResultCopy(rs, calls)
                      [] rs.success -> success(rs.state, str, calls)

lazyP_run(f, s) ==
    LET r == Run(Thunk(f), s) IN [r EXCEPT !.calls = <<Call(Thunk(f), s, r)>>]

\* p(s): the call of the closure p on the state s.
Run(p, s) ==
    CASE p.op = "idP" -> idP_run(s)
      [] p.op = "eofP" -> eofP_run(s)
      [] p.op = "predP" -> predP_run(p.pred, s)
      [] p.op = "mapP" -> mapP_run(p.p, p.f, s)
      [] p.op = "orP" -> orP_run(p.p, p.ps, s)
      [] p.op = "pureP" -> pureP_run(p.x, s)
      [] p.op = "andP" -> andP_run(p.pa, p.pb, p.f, s)
      [] p.op = "manyP" -> manyP_run(p.p, s)
      [] p.op = "stringP" -> stringP_run(p.str, s)
      [] p.op = "lazyP" -> lazyP_run(p.thunk, s)

\* parse(p, s): p on a fresh state at position 0.
parse(p, s) == Run(p, NewParseState(s))

----------------------------------------------------------------------------
(* The inputs and parsers the driver draws from *)

Alphabet == {"a", "b"}

\* Every string over the alphabet of at most MaxLen characters.
Inputs == UNION {[1..n -> Alphabet] : n \in 0..MaxLen}

\* Every state of an input: the positions 0..length.
States == {ParseState(x[1], x[2]) : x \in {y \in (0..MaxLen) \X Inputs : y[1] <= Len(y[2])}}

PredFns == {[fn |-> "eq", c |-> "a"], [fn |-> "eq", c |-> "b"],
            [fn |-> "oneOf", s |-> <<"a", "b">>], [fn |-> "oneOf", s |-> <<>>]}

Literals == {<<>>, <<"a">>, <<"a", "b">>, <<"a", "b", "a">>}

\* Parsers of characters that consume input when they succeed.
CharParsers ==
    {idP, charP("a"), rightP(charP("a"), charP("b")), mapP(leftP(idP, charP("b")), "escape")}

\* Alternatives: parsers of characters, one of which succeeds without consuming.
AltParsers == {charP("a"), charP("b"), rightP(charP("a"), charP("a")), pureP("z")}

AltLists == UNION {[1..n -> AltParsers] : n \in 2..MaxAlts}

\* A sequence joined by a separator.
RECURSIVE Join(_, _)
Join(xs, sep) ==
    IF xs = <<>> THEN <<>>
    ELSE IF Len(xs) = 1 THEN xs[1]
    ELSE xs[1] \o sep \o Join(Tail(xs), sep)

\* Texts of JSON values with the JsonValue each denotes.
JsonSamples ==
    << [text |-> <<"1">>, value |-> JsonNum(Double(1, 0))],
       [text |-> <<"n", "u", "l", "l">>, value |-> JsonNull],
       [text |-> <<"\"", "a", "\\", "n", "\"">>, value |-> JsonString(<<"a", "\n">>)],
       [text |-> <<"[", "]">>, value |-> JsonArray(<<>>)],
       [text |-> <<" ", "t", "r", "u", "e">>, value |-> JsonBool(TRUE)],
       [text |-> <<"-", "2", "0", ".", "5", " ">>, value |-> JsonNum(Double(-195, 1))],
       [text |-> <<"[", "f", "a", "l", "s", "e", ",", "7", "]">>,
        value |-> JsonArray(<<JsonBool(FALSE), JsonNum(Double(7, 0))>>)],
       [text |-> <<"{", "\"", "b", "\"", ":", "3", "}">>,
        value |-> JsonObject([k \in {<<"b">>} |-> JsonNum(Double(3, 0))])] >>

SampleIds == 1..Len(JsonSamples)

\* The lists of at least one and at most MaxElems sample values.
ElemLists == UNION {[1..n -> SampleIds] : n \in 1..MaxElems}

\* '[' v1 ',' v2 ... ']', with a ',' before the ']' when trailing.
ArrayText(ids, trailing) ==
    <<"[">> \o Join([i \in 1..Len(ids) |-> JsonSamples[ids[i]].text], <<",">>)
            \o (IF trailing THEN <<",">> ELSE <<>>) \o <<"]">>

ArrayValue(ids) == JsonArray([i \in 1..Len(ids) |-> JsonSamples[ids[i]].value])

\* Texts of object keys with the string each denotes.
KeySamples ==
    << [text |-> <<"\"", "a", "\"">>, key |-> <<"a">>],
       [text |-> <<"\"", "\\", "t", "\"">>, key |-> <<"\t">>],
       [text |-> <<" ", "\"", "a", "\"", " ">>, key |-> <<"a">>] >>

KeyIds == 1..Len(KeySamples)

\* The values the pairs of the object texts take.
PairValueIds == 1..3

\* The lists of at most MaxPairs pairs (key sample, value sample).
PairLists == UNION {[1..n -> KeyIds \X PairValueIds] : n \in 0..MaxPairs}

\* '{' k1 ':' v1 ',' ... '}'
ObjectText(pairs) ==
    <<"{">> \o Join([i \in 1..Len(pairs) |->
                        KeySamples[pairs[i][1]].text \o <<":">> \o JsonSamples[pairs[i][2]].text],
                    <<",">>) \o <<"}">>

WsChars == {" ", "\t", "\n"}

\* The runs of at most MaxWs whitespace characters.
WsRuns == UNION {[1..n -> WsChars] : n \in 0..MaxWs}

Closing(open) == IF open = "[" THEN "]" ELSE "}"

\* An opening and its closing bracket around whitespace only.
BracketText(open, ws) == <<open>> \o ws \o <<Closing(open)>>

Tokens ==
    { <<"[">>, <<"]">>, <<"{">>, <<"}">>, <<",">>, <<":">>, <<" ">>, <<"\"">>, <<"\\">>,
      <<"1">>, <<"-">>, <<".">>, <<"n", "u">>, <<"t", "r", "u", "e">>, <<"f", "a", "l", "s">> }

\* The texts of at most n tokens.
RECURSIVE TokenTexts(_)
TokenTexts(n) ==
    IF n = 0 THEN {<<>>}
    ELSE LET shorter == TokenTexts(n - 1) IN
         shorter \cup {x[1] \o x[2] : x \in shorter \X Tokens}

----------------------------------------------------------------------------
(* The driver: one call of a parser on a state *)

NoParser == [op |-> "none"]
NoResult == [abort |-> FALSE, success |-> FALSE, calls |-> <<>>]

Init ==
    /\ pc = "ready"
    /\ parser = NoParser
    /\ state = NewParseState(<<>>)
    /\ res = NoResult
    /\ unionCopy \in UnionCopyOutcomes

\* res = p(s)
Invoke(p, s) ==
    /\ pc' = "done"
    /\ parser' = p
    /\ state' = s
    /\ res' = Run(p, s)
    /\ UNCHANGED unionCopy

CallIdP ==
    /\ pc = "ready"
    /\ \E s \in States : Invoke(idP, s)

CallEofP ==
    /\ pc = "ready"
    /\ \E s \in States : Invoke(eofP, s)

CallPredP ==
    /\ pc = "ready"
    /\ \E f \in PredFns, s \in States : Invoke(predP(f), s)

CallStringP ==
    /\ pc = "ready"
    /\ \E str \in Literals, s \in States : Invoke(stringP(str), s)

CallMapP ==
    /\ pc = "ready"
    /\ \E p \in CharParsers, s \in States : Invoke(mapP(p, "escape"), s)

CallPureP ==
    /\ pc = "ready"
    /\ \E s \in States : Invoke(pureP("z"), s)

CallOrP ==
    /\ pc = "ready"
    /\ \E ps \in AltLists, s \in States : Invoke(orP(ps), s)

CallAndP ==
    /\ pc = "ready"
    /\ \E pa \in AltParsers, pb \in AltParsers, f \in {"first", "second", "make_pair"}, s \in States :
            Invoke(andP(pa, pb, f), s)

CallManyP ==
    /\ pc = "ready"
    /\ \E p \in CharParsers \cup {stringP(<<"a", "b">>)}, s \in States : Invoke(manyP(p), s)

CallSomeP ==
    /\ pc = "ready"
    /\ \E p \in CharParsers, s \in States : Invoke(someP(p), s)

\* parse(jsonP(), text) on an array text
ParseJsonArray ==
    /\ pc = "ready"
    /\ \E ids \in ElemLists, trailing \in BOOLEAN :
            Invoke(jsonP, NewParseState(ArrayText(ids, trailing)))

\* parse(jsonP(), text) on an object text
ParseJsonObject ==
    /\ pc = "ready"
    /\ \E pairs \in PairLists : Invoke(jsonP, NewParseState(ObjectText(pairs)))

\* parse(jsonP(), text) on brackets around whitespace
ParseJsonBrackets ==
    /\ pc = "ready"
    /\ \E open \in {"[", "{"}, ws \in WsRuns : Invoke(jsonP, NewParseState(BracketText(open, ws)))

\* parse(jsonP(), text) on any short text
ParseJsonTokens ==
    /\ pc = "ready"
    /\ \E text \in TokenTexts(MaxTokens) : Invoke(jsonP, NewParseState(text))

Next ==
    \/ CallIdP
    \/ CallEofP
    \/ CallPredP
    \/ CallStringP
    \/ CallMapP
    \/ CallPureP
    \/ CallOrP
    \/ CallAndP
    \/ CallManyP
    \/ CallSomeP
    \/ ParseJsonArray
    \/ ParseJsonObject
    \/ ParseJsonBrackets
    \/ ParseJsonTokens

Spec == Init /\ [][Next]_vars

----------------------------------------------------------------------------
(* What the claims speak of *)

Done == pc = "done"

\* The driver's call returned a ParseResult.
Returned == Done /\ ~res.abort

\* The node of the driver's own call.
Root == Call(parser, state, res)

\* The alternatives of the closure orP(p, ps...).
Alternatives(p) == <<p.p>> \o p.ps

\* The calls of alternatives an orP body of n alternatives made, in order:
\* the first, then those of the closure over the rest.
RECURSIVE Attempts(_, _)
Attempts(calls, n) ==
    IF Len(calls) = 1 \/ n = 2 THEN calls
    ELSE <<calls[1]>> \o Attempts(calls[2].sub, n - 1)

\* The alternatives that succeed at s.
Succeeding(ps, s) == {i \in 1..Len(ps) : Run(ps[i], s).success}

Min(S) == CHOOSE i \in S : \A j \in S : i <= j

----------------------------------------------------------------------------
(* C1 *)

\* The character predP read does not satisfy its predicate.
PredRejects ==
    /\ Returned
    /\ parser.op = "predP"
    /\ state.pos < Len(state.s)
    /\ ~Pred(parser.pred, state.s[state.pos + 1])

\* C1: when predP (hence charP and oneOfP) reads a character that does not
\* satisfy its predicate, the Failure it returns carries the state it was
\* called on: its position is pos, never pos + 1.
C1_PredFailureAtAttemptSite ==
    PredRejects => ~res.success /\ res.state.pos = state.pos

\* What the code does there: the Failure carries the state idP returned.
C1_PredFailureAfterCharacter ==
    PredRejects => ~res.success /\ res.state.pos = state.pos + 1

----------------------------------------------------------------------------
(* C2 *)

OrCall == Returned /\ parser.op = "orP"

\* C2: every alternative orP attempts is called on the state orP was called
\* on, the attempts are the alternatives from the left in their order, they
\* stop at the first alternative that succeeds, and the result is that
\* alternative's result on the original state.
C2_AltFirstSuccessAtOriginalState ==
    OrCall =>
        LET ps == Alternatives(parser)
            tried == Attempts(res.calls, Len(ps))
            ok == Succeeding(ps, state)
        IN /\ Len(tried) = IF ok = {} THEN Len(ps) ELSE Min(ok)
           /\ \A i \in 1..Len(tried) : tried[i].p = ps[i] /\ tried[i].at = state.pos
           /\ \A i \in 1..(Len(tried) - 1) : ~tried[i].success
           /\ ok # {} =>
                LET r == Run(ps[Min(ok)], state) IN
                /\ res.success
                /\ res.result = r.result
                /\ res.state = r.state

\* Three alternatives, the first two of which fail after consuming input and
\* the third of which succeeds.
C2_Witness ==
    /\ OrCall
    /\ Len(Alternatives(parser)) = 3
    /\ Len(Attempts(res.calls, 3)) = 3
    /\ Attempts(res.calls, 3)[1].to > state.pos
    /\ Attempts(res.calls, 3)[2].to > state.pos
    /\ res.success
    /\ res.state.pos > state.pos

----------------------------------------------------------------------------
(* C3 *)

\* C3: when every alternative of orP fails, the result is the Failure of the
\* last alternative on the original state, expectations and state, with
\* nothing of the earlier alternatives' failures in it.
C3_AltAllFailIsLastFailure ==
    (OrCall /\ Succeeding(Alternatives(parser), state) = {}) =>
        LET ps == Alternatives(parser)
            last == Run(ps[Len(ps)], state)
        IN /\ ~res.success
           /\ res.error = last.error
           /\ res.state = last.state

\* Three failing alternatives whose failures differ in expectation and state.
C3_Witness ==
    /\ OrCall
    /\ Len(Alternatives(parser)) = 3
    /\ ~res.success
    /\ LET first == Run(Alternatives(parser)[1], state) IN
       first.error # res.error /\ first.state # res.state

----------------------------------------------------------------------------
(* C4 *)

ManyCall == Returned /\ parser.op = "manyP"

\* The state after i successful applications of p from s.
RECURSIVE After(_, _, _)
After(p, s, i) == IF i = 0 THEN s ELSE Run(p, After(p, s, i - 1)).state

\* C4: manyP never returns a Failure; its value lists the values of the
\* consecutive successful applications of p, in order, up to the first
\* application that fails, and its state is the one the last successful
\* application returned, not the one the failed application carries.
C4_ManyCollectsUntilFailure ==
    /\ (Done /\ parser.op = "manyP" /\ ~res.success) => res.abort
    /\ ManyCall =>
        LET p == parser.p
            n == Len(res.result)
        IN /\ \A i \in 1..n :
                LET r == Run(p, After(p, state, i - 1)) IN
                r.success /\ r.result = res.result[i]
           /\ ~Run(p, After(p, state, n)).success
           /\ res.state = After(p, state, n)
    /\ (Returned /\ parser.op = "andP" /\ parser.f = "push_front") =>
        LET first == Run(parser.pa, state) IN
        /\ res.success = first.success
        /\ res.success =>
            LET rest == Run(parser.pb, first.state) IN
            res.result = <<first.result>> \o rest.result /\ res.state = rest.state

\* Two applications succeed and the third fails on a state further on.
C4_Witness ==
    /\ ManyCall
    /\ Len(res.result) = 2
    /\ Run(parser.p, res.state).state.pos > res.state.pos

----------------------------------------------------------------------------
(* C5 *)

\* Every position in the tree of a call is a position of the input.
RECURSIVE InBounds(_, _)
InBounds(node, len) ==
    /\ node.at \in 0..len
    /\ node.to \in 0..len
    /\ \A i \in 1..Len(node.sub) : InBounds(node.sub[i], len)

\* C5: the state of every ParseResult, of the driver's call and of every
\* call made on the way, has 0 <= position <= length(input).
C5_PositionsWithinInput ==
    Done => /\ InBounds(Root, Len(state.s))
            /\ Returned => res.state.pos \in 0..Len(state.s)

\* A JSON parse that fails at the end of a non-empty input.
C5_Witness ==
    /\ Returned
    /\ parser = jsonP
    /\ ~res.success
    /\ Len(state.s) > 0
    /\ res.state.pos = Len(state.s)

----------------------------------------------------------------------------
(* C6 *)

AndCall == Returned /\ parser.op = "andP"

\* C6: andP is committed sequencing.  If pa fails, the result is pa's Failure
\* as it is and pb is not called.  Otherwise pb is called once, on the state
\* pa returned; if it fails the result is pb's Failure as it is, and if it
\* succeeds the result is f of the two values at pb's state.  leftP keeps the
\* first value and rightP the second.
C6_AndCommittedSequencing ==
    AndCall =>
        LET ra == Run(parser.pa, state) IN
        /\ res.calls[1].p = parser.pa
        /\ res.calls[1].at = state.pos
        /\ IF ~ra.success
           THEN /\ Len(res.calls) = 1
                /\ ~res.success
                /\ res.error = ra.error
                /\ res.state = ra.state
           ELSE LET rb == Run(parser.pb, ra.state) IN
                /\ Len(res.calls) = 2
                /\ res.calls[2].p = parser.pb
                /\ res.calls[2].at = ra.state.pos
                /\ IF ~rb.success
                   THEN /\ ~res.success
                        /\ res.error = rb.error
                        /\ res.state = rb.state
                   ELSE /\ res.success
                        /\ res.state = rb.state
                        /\ parser.f = "first" => res.result = ra.result
                        /\ parser.f = "second" => res.result = rb.result
                        /\ parser.f = "make_pair" =>
                                res.result = [first |-> ra.result, second |-> rb.result]

\* pa consumed input and pb then failed further on.
C6_Witness ==
    /\ AndCall
    /\ parser.f = "first"
    /\ Len(res.calls) = 2
    /\ res.calls[1].to > state.pos
    /\ ~res.success
    /\ res.state.pos > res.calls[1].to

----------------------------------------------------------------------------
(* C7 *)

\* parse(jsonP(), text) returned or aborted on a text that opens with c.
JsonCall(c) ==
    /\ Done
    /\ parser = jsonP
    /\ state.pos = 0
    /\ Len(state.s) > 0
    /\ state.s[1] = c

\* C7: on '[', one or more JSON values separated by ',', a ',' and ']',
\* parse(jsonP(), text) returns a Failure; on the same text without that
\* last ',' it returns Success with the Array of those values in the order
\* of the text, all of the text consumed.
C7_ArrayRejectsTrailingComma ==
    JsonCall("[") =>
        \A ids \in ElemLists :
            /\ state.s = ArrayText(ids, TRUE) => ~res.abort /\ ~res.success
            /\ state.s = ArrayText(ids, FALSE) =>
                    /\ ~res.abort
                    /\ res.success
                    /\ res.result = ArrayValue(ids)
                    /\ res.state.pos = Len(state.s)

\* A Failure on two values, the second an array, and a trailing ','.
C7_Witness ==
    /\ JsonCall("[")
    /\ Returned
    /\ ~res.success
    /\ \E ids \in ElemLists :
            Len(ids) = 2 /\ ids[2] = 7 /\ state.s = ArrayText(ids, TRUE)

----------------------------------------------------------------------------
(* C8 *)

\* The keys the pairs name.
KeysOf(pairs) == {KeySamples[pairs[i][1]].key : i \in 1..Len(pairs)}

\* The last pair that names the key k.
LastOccurrence(pairs, k) ==
    CHOOSE i \in 1..Len(pairs) :
        /\ KeySamples[pairs[i][1]].key = k
        /\ \A j \in (i + 1)..Len(pairs) : KeySamples[pairs[j][1]].key # k

\* The mapping of each key to the value of its last occurrence.
LastWrites(pairs) ==
    [k \in KeysOf(pairs) |-> JsonSamples[pairs[LastOccurrence(pairs, k)][2]].value]

Reversed(xs) == [i \in 1..Len(xs) |-> xs[Len(xs) + 1 - i]]

\* C8: on an object text parse(jsonP(), text) returns the Object that maps
\* each key to the value of its last occurrence in the text, and the text
\* that lists pairs of distinct keys in the opposite order gives an equal
\* JsonValue.
C8_ObjectLastWriteWins ==
    JsonCall("{") =>
        \A pairs \in PairLists :
            state.s = ObjectText(pairs) =>
                /\ ~res.abort
                /\ res.success
                /\ res.result = JsonObject(LastWrites(pairs))
                /\ res.state.pos = Len(state.s)
                /\ Cardinality(KeysOf(pairs)) = Len(pairs) =>
                        LET other == Run(jsonP, NewParseState(ObjectText(Reversed(pairs)))) IN
                        other.success /\ other.result = res.result

\* One key written twice, with two values: the Object holds the second.
C8_Witness ==
    /\ JsonCall("{")
    /\ Returned
    /\ res.success
    /\ \E pairs \in PairLists :
            /\ Len(pairs) = 2
            /\ state.s = ObjectText(pairs)
            /\ KeySamples[pairs[1][1]].key = KeySamples[pairs[2][1]].key
            /\ pairs[1][2] # pairs[2][2]
            /\ res.result.objectValue[KeySamples[pairs[2][1]].key]
                    = JsonSamples[pairs[2][2]].value

----------------------------------------------------------------------------
(* C9 *)

\* Every application of p that a manyP made and that succeeded returned a
\* state further on than the one it was called on.
RECURSIVE ManyAdvances(_)
ManyAdvances(node) ==
    /\ (node.p.op = "manyP" /\ node.sub[1].success) => node.sub[1].to > node.sub[1].at
    /\ \A i \in 1..Len(node.sub) : ManyAdvances(node.sub[i])

\* Every lazyP(jsonP) is called on a position after the one of the jsonP
\* call around it.
RECURSIVE LazyDeeper(_, _)
LazyDeeper(node, enclosing) ==
    LET reentry == node.p.op = "lazyP" /\ node.p.thunk = "jsonP" IN
    /\ reentry => node.at > enclosing
    /\ \A i \in 1..Len(node.sub) :
            LazyDeeper(node.sub[i], IF reentry THEN node.at ELSE enclosing)

\* The grammar makes progress: what C9 gives as the reason of termination.
JsonGrammarProgress ==
    (Done /\ parser = jsonP) => ManyAdvances(Root) /\ LazyDeeper(Root, state.pos)

\* C9: parse(jsonP(), input) returns a Success or a Failure on every input,
\* every parser under a manyP of the grammar advancing the position when it
\* succeeds and every re-entry into jsonP being at a larger position.
C9_JsonParseReturns ==
    (Done /\ parser = jsonP) =>
        /\ ~res.abort
        /\ ManyAdvances(Root)
        /\ LazyDeeper(Root, state.pos)

----------------------------------------------------------------------------
(* C10 *)

\* A call of p at the position pos, with that outcome, in the tree of node.
RECURSIVE Called(_, _, _, _)
Called(node, p, pos, ok) ==
    \/ node.p.op = p.op /\ node.p = p /\ node.at = pos /\ node.success = ok /\ node.to = pos + 1
    \/ \E i \in 1..Len(node.sub) : Called(node.sub[i], p, pos, ok)

\* The pureP fallback returned the state it was called on, at pos.
RECURSIVE Resumed(_, _)
Resumed(node, pos) ==
    \/ node.p.op = "pureP" /\ node.at = pos /\ node.to = pos /\ node.success
    \/ \E i \in 1..Len(node.sub) : Resumed(node.sub[i], pos)

EmptyOf(open) == IF open = "[" THEN JsonArray(<<>>) ELSE JsonObject(EmptyMap)

\* C10: "[]" and "{}" parse to the empty Array and the empty Object, and an
\* opening bracket, one or more of space, tab and newline, and the closing
\* bracket parse to a Failure: the pureP fallback resumes right after the
\* opening bracket and the parser of the closing bracket, called there with
\* no whitespace skipped, fails on the whitespace character.
C10_WhitespaceInEmptyBracketsRejected ==
    \A open \in {"[", "{"} :
        JsonCall(open) =>
            \A ws \in WsRuns :
                state.s = BracketText(open, ws) =>
                    /\ ~res.abort
                    /\ IF ws = <<>>
                       THEN /\ res.success
                            /\ res.result = EmptyOf(open)
                            /\ res.state.pos = 2
                       ELSE /\ ~res.success
                            /\ Resumed(Root, 1)
                            /\ Called(Root, charP(Closing(open)), 1, FALSE)

\* A Failure on '{', a tab and a space, '}'.
C10_Witness ==
    /\ JsonCall("{")
    /\ Returned
    /\ ~res.success
    /\ state.s = BracketText("{", <<"\t", " ">>)

====
